---- MODULE Spec2Model ----
(***************************************************************************)
(* Model of notebooks/experimental/topology/topology_numpy.py: the label   *)
(* encoder, the topology block builder, the edge extractor, the lithology  *)
(* look-up and the adjacency matrix builder.                               *)
(*                                                                         *)
(* Python strings of binary digits are sequences over {0, 1}, most         *)
(* significant digit first.  numpy arrays are functions from 0-based       *)
(* indices to integers.  A raised exception is recorded in err and stops   *)
(* the run.                                                                *)
(***************************************************************************)
EXTENDS Integers, Sequences, FiniteSets

VARIABLES n_faults, n_layers, lb, fb, fb_given, labels, prev_labels, calls,
          lith_lot, fault_labels, fault_labels_bin, lith_labels_bin,
          adj_matrix_labels, edges, adj_matrix,
          shape, labels_block, topo_block, pc, err

vars == <<n_faults, n_layers, lb, fb, fb_given, labels, prev_labels, calls,
          lith_lot, fault_labels, fault_labels_bin, lith_labels_bin,
          adj_matrix_labels, edges, adj_matrix,
          shape, labels_block, topo_block, pc, err>>

(* ------------------------------ bounds -------------------------------- *)
MaxFaults == 3
MaxLayers == 2
NVox == 2
MaxCalls == 2
MaxEdges == 1

Vox == 0 .. (NVox - 1)

(* --------------------------- integer helpers -------------------------- *)
RECURSIVE Pow2(_)
Pow2(n) == IF n <= 0 THEN 1 ELSE 2 * Pow2(n - 1)

RECURSIVE SumOver(_, _)
SumOver(S, f) ==
    IF S = {} THEN 0
    ELSE LET x == CHOOSE y \in S : TRUE IN f[x] + SumOver(S \ {x}, f)

RECURSIVE SumSeq(_)
SumSeq(s) == IF s = <<>> THEN 0 ELSE Head(s) + SumSeq(Tail(s))

SetMin(S) == CHOOSE x \in S : \A y \in S : x <= y
SetMax(S) == CHOOSE x \in S : \A y \in S : x >= y
Abs(x) == IF x < 0 THEN -x ELSE x
Range(f) == {f[x] : x \in DOMAIN f}

RECURSIVE PopCount(_)
PopCount(n) == IF n <= 0 THEN 0 ELSE (n % 2) + PopCount(n \div 2)

(* ------------------------- np.binary_repr, zfill ---------------------- *)
RECURSIVE BinaryRepr(_)
BinaryRepr(n) ==
    IF n < 2 THEN <<n>> ELSE Append(BinaryRepr(n \div 2), n % 2)

Zfill(s, width) ==
    IF Len(s) >= width THEN s
    ELSE [k \in 1 .. (width - Len(s)) |-> 0] \o s

RECURSIVE BinValue(_)
BinValue(s) ==
    IF s = <<>> THEN 0 ELSE 2 * BinValue(SubSeq(s, 1, Len(s) - 1)) + s[Len(s)]

(* Python "a in k" on strings: a occurs as a contiguous substring of k *)
Contains(k, a) ==
    \E o \in 0 .. (Len(k) - Len(a)) : SubSeq(k, o + 1, o + Len(a)) = a

(* list.index(x): 0-based position of the first match, -1 when none *)
IndexOf(list, x) ==
    IF \E k \in 1 .. Len(list) : list[k] = x
    THEN SetMin({k \in 1 .. Len(list) : list[k] = x}) - 1
    ELSE -1

np_unique(arr) == Range(arr)

(* ----------------------------- get_labels_block ----------------------- *)
(* fb -= 1; fb += np.arange(n_faults)[None, :].T   (in place) *)
FaultShiftNoOffset(i, side) == side - 1
FaultShift(i, side) == side - 1 + i

ShiftedFb(fbIn) ==
    [i \in DOMAIN fbIn |-> [v \in DOMAIN fbIn[i] |-> FaultShift(i, fbIn[i][v])]]

(* lb = lb - lb.min() + n_faults + 2   (a new array; the argument is kept) *)
ShiftedLb(lbIn, nf) ==
    [v \in DOMAIN lbIn |-> lbIn[v] - SetMin(Range(lbIn)) + nf + 2]

(* 2**np.concatenate(...) raises on a negative integer exponent *)
NegativeExponent(lbS, fbS) ==
    \/ \E v \in DOMAIN lbS : lbS[v] < 0
    \/ \E i \in DOMAIN fbS : \E v \in DOMAIN fbS[i] : fbS[i][v] < 0

FaultPart(fbS, v) == SumOver(DOMAIN fbS, [i \in DOMAIN fbS |-> Pow2(fbS[i][v])])

(* labels = (2**concatenate((lb[None, :], fb))).sum(axis=0) *)
SummedLabels(lbS, fbS) ==
    [v \in DOMAIN lbS |-> Pow2(lbS[v]) + FaultPart(fbS, v)]

(* ------------------------------- get_lith_lot ------------------------- *)
LayerKey(i, nf, nl) == Zfill(BinaryRepr(Pow2(i)), nf * 2 + nl)

(* node_bin[:-n_faults * 2] + "0" * n_faults * 2 *)
NodeBinNoFault(node, nf, nl) ==
    LET node_bin == Zfill(BinaryRepr(node), nf * 2 + nl)
        keep == IF Len(node_bin) > nf * 2 THEN Len(node_bin) - nf * 2 ELSE 0
    IN SubSeq(node_bin, 1, keep) \o [k \in 1 .. (nf * 2) |-> 0]

LayerMatches(node, nf, nl) ==
    {i \in (nf * 2) .. (nf * 2 + nl - 1) :
        Contains(LayerKey(i, nf, nl), NodeBinNoFault(node, nf, nl))}

(* the dict is filled in ascending i, so the last match is the one kept *)
get_lith_lot(labelsIn, nf, nl) ==
    LET found == {node \in np_unique(labelsIn) : LayerMatches(node, nf, nl) # {}}
    IN [node \in found |-> SetMax(LayerMatches(node, nf, nl))]

(* ------------------------------ get_fault_labels ---------------------- *)
(* np.stack((arange(n), arange(1, n + 1))).T + arange(n)[None, :].T *)
get_fault_labels(nf) == [r \in 1 .. nf |-> <<(r - 1) + (r - 1), r + (r - 1)>>]

RECURSIVE Flatten(_)
Flatten(rows) == IF rows = <<>> THEN <<>> ELSE Head(rows) \o Flatten(Tail(rows))

(* itertools.combinations(s, r), in the order itertools emits them *)
RECURSIVE Combinations(_, _)
Combinations(s, r) ==
    IF r = 0 THEN << <<>> >>
    ELSE IF Len(s) < r THEN <<>>
    ELSE LET withHead == Combinations(Tail(s), r - 1)
         IN [k \in 1 .. Len(withHead) |-> <<Head(s)>> \o withHead[k]]
            \o Combinations(Tail(s), r)

RowSums(rows) == {SumSeq(rows[r]) : r \in 1 .. Len(rows)}

(* if sum(comb) in np.sum(fault_labels, axis=1): continue *)
SkipComb(comb, rows) == SumSeq(comb) \in RowSums(rows)

CombBin(comb, nf) ==
    Zfill(BinaryRepr(SumSeq([k \in 1 .. Len(comb) |-> Pow2(comb[k])])), nf * 2)

RECURSIVE KeepCombs(_, _)
KeepCombs(combs, rows) ==
    IF combs = <<>> THEN <<>>
    ELSE IF SkipComb(Head(combs), rows) THEN KeepCombs(Tail(combs), rows)
    ELSE <<CombBin(Head(combs), Len(rows))>> \o KeepCombs(Tail(combs), rows)

get_fault_label_comb_bin(rows) ==
    KeepCombs(Combinations(Flatten(rows), Len(rows)), rows)

(* ----------------------------- get_lith_labels_bin -------------------- *)
get_lith_labels_bin(nl) == [k \in 1 .. nl |-> Zfill(BinaryRepr(Pow2(k - 1)), nl)]

(* ---------------------------- get_adj_matrix_labels ------------------- *)
(* [l + f for l in lith_labels_bin for f in fault_labels_bin] *)
get_adj_matrix_labels(lith_bin, fault_bin) ==
    [k \in 1 .. (Len(lith_bin) * Len(fault_bin)) |->
        lith_bin[((k - 1) \div Len(fault_bin)) + 1]
        \o fault_bin[((k - 1) % Len(fault_bin)) + 1]]

(* -------------------------------- get_adj_matrix ---------------------- *)
LabelWidth == 9

EdgeEntriesOneWay(i, j) == {<<i, j>>}
EdgeEntries(i, j) == {<<i, j>>, <<j, i>>}

EdgeIndex(list, node) == IndexOf(list, Zfill(BinaryRepr(node), Len(list[1])))
DiagIndex(list, node) == IndexOf(list, Zfill(BinaryRepr(node), LabelWidth))

(* the exception get_adj_matrix raises on these arguments, "" when none *)
AdjMatrixError(edgesIn, list, labelsIn) ==
    IF Len(list) = 0 THEN "IndexError"
    ELSE IF \E e \in edgesIn :
                EdgeIndex(list, e[1]) < 0 \/ EdgeIndex(list, e[2]) < 0
         THEN "ValueError"
    ELSE IF \E l \in np_unique(labelsIn) : DiagIndex(list, l) < 0
         THEN "ValueError"
    ELSE ""

get_adj_matrix(edgesIn, list, labelsIn) ==
    LET n == Len(list)
        fromEdges == UNION {EdgeEntries(EdgeIndex(list, e[1]),
                                        EdgeIndex(list, e[2])) : e \in edgesIn}
        diagonal == {<<DiagIndex(list, l), DiagIndex(list, l)>> :
                        l \in np_unique(labelsIn)}
    IN [ij \in (0 .. (n - 1)) \X (0 .. (n - 1)) |->
            ij \in (fromEdges \cup diagonal)]

(* ------------------------- 3-D arrays and slices ---------------------- *)
(* A 3-D array is [shape |-> <<nx, ny, nz>>, val |-> values by index].     *)
(* A slice is [lo, hi, hasHi]; hasHi = FALSE is an open end (None).        *)
Idx(shp) == (0 .. (shp[1] - 1)) \X (0 .. (shp[2] - 1)) \X (0 .. (shp[3] - 1))

SliceFrom(lo) == [lo |-> lo, hi |-> 0, hasHi |-> FALSE]
SliceTo(hi) == [lo |-> 0, hi |-> hi, hasHi |-> TRUE]
SliceBetween(lo, hi) == [lo |-> lo, hi |-> hi, hasHi |-> TRUE]
SliceAll == SliceFrom(0)

(* Python's normalisation of a slice bound against a length *)
NormIndex(i, n) ==
    IF i < 0 THEN (IF i + n < 0 THEN 0 ELSE i + n)
    ELSE (IF i > n THEN n ELSE i)

SliceLo(sl, n) == NormIndex(sl.lo, n)
SliceHi(sl, n) == IF sl.hasHi THEN NormIndex(sl.hi, n) ELSE n
SliceLen(sl, n) ==
    IF SliceHi(sl, n) > SliceLo(sl, n) THEN SliceHi(sl, n) - SliceLo(sl, n) ELSE 0

(* arr[sls[1], sls[2], sls[3]] *)
Take(arr, sls) ==
    LET shp == [a \in 1 .. 3 |-> SliceLen(sls[a], arr.shape[a])]
    IN [shape |-> shp,
        val |-> [p \in Idx(shp) |->
                    arr.val[<<SliceLo(sls[1], arr.shape[1]) + p[1],
                              SliceLo(sls[2], arr.shape[2]) + p[2],
                              SliceLo(sls[3], arr.shape[3]) + p[3]>>]]]

(* the slice tuple that puts own on the given axis and other elsewhere *)
OnAxis(axis, own, other) == [a \in 1 .. 3 |-> IF a = axis + 1 THEN own ELSE other]

(* -------------------------------- get_topo_block ---------------------- *)
n_shift == 1

(* slice(n_shift // 2, -n_shift//2): the unary minus binds before // *)
CropSlice(shift) == SliceBetween(shift \div 2, (-shift) \div 2)

(* np.abs(labels[n_shift:] + labels[:-n_shift]) along one axis *)
ShiftSum(arr, axis, shift) ==
    LET upper == Take(arr, OnAxis(axis, SliceFrom(shift), SliceAll))
        lower == Take(arr, OnAxis(axis, SliceTo(-shift), SliceAll))
    IN [shape |-> upper.shape,
        val |-> [p \in Idx(upper.shape) |-> Abs(upper.val[p] + lower.val[p])]]

TopoDir(arr, axis, shift) ==
    Take(ShiftSum(arr, axis, shift), OnAxis(axis, SliceAll, CropSlice(shift)))

(* np.concatenate needs the three blocks to have one shape *)
TopoShapesAgree(arr, shift) ==
    /\ TopoDir(arr, 0, shift).shape = TopoDir(arr, 1, shift).shape
    /\ TopoDir(arr, 1, shift).shape = TopoDir(arr, 2, shift).shape

get_topo_block(arr, shift) == [axis \in 0 .. 2 |-> TopoDir(arr, axis, shift)]

(* ----------------------------------- get_edges ------------------------ *)
SliceFit(shift) == SliceBetween(shift - 1, -shift)

Shift1(arr, axis, shift) ==
    Take(arr, OnAxis(axis, SliceFrom(shift), SliceFit(shift)))
Shift2(arr, axis, shift) ==
    Take(arr, OnAxis(axis, SliceTo(-shift), SliceFit(shift)))

(* the edge sums the inner loop does not skip *)
EdgeSums(topoDir) == {t \in Range(topoDir.val) : t # 0}

Filter(topoDir, edge_sum) ==
    {p \in Idx(topoDir.shape) : topoDir.val[p] = edge_sum}

(* a boolean mask indexes only an array of its own shape *)
MaskMismatch(topo, arr, shift) ==
    \E axis \in 0 .. 2 :
        /\ EdgeSums(topo[axis]) # {}
        /\ \/ Shift1(arr, axis, shift).shape # topo[axis].shape
           \/ Shift2(arr, axis, shift).shape # topo[axis].shape

(* (np.unique(shift_1[filter_])[0], np.unique(shift_2[filter_])[0]) *)
EdgeOf(topoDir, arr, axis, shift, edge_sum) ==
    <<SetMin({Shift1(arr, axis, shift).val[p] : p \in Filter(topoDir, edge_sum)}),
      SetMin({Shift2(arr, axis, shift).val[p] : p \in Filter(topoDir, edge_sum)})>>

get_edges(topo, arr, shift) ==
    UNION {{EdgeOf(topo[axis], arr, axis, shift, edge_sum) :
                edge_sum \in EdgeSums(topo[axis])} : axis \in 0 .. 2}

(* ========================== the labelling pipeline ==================== *)
(* the edge sets handed to get_adj_matrix: pairs of the given nodes *)
EdgeSetsOver(nodes) ==
    {E \in SUBSET (nodes \X nodes) : Cardinality(E) <= MaxEdges}

NoArray == <<>>
NoMatrix == <<>>

Idle3D ==
    /\ shape = <<0, 0, 0>>
    /\ labels_block = NoArray
    /\ topo_block = NoArray

Init ==
    /\ n_faults \in 1 .. MaxFaults
    /\ n_layers \in 1 .. MaxLayers
    /\ lb \in [Vox -> 1 .. n_layers]
    /\ fb \in [0 .. (n_faults - 1) -> [Vox -> {1, 2}]]
    /\ fb_given = fb
    /\ labels = NoArray
    /\ prev_labels = NoArray
    /\ calls = 0
    /\ lith_lot = NoArray
    /\ fault_labels = <<>>
    /\ fault_labels_bin = <<>>
    /\ lith_labels_bin = <<>>
    /\ adj_matrix_labels = <<>>
    /\ edges = {}
    /\ adj_matrix = NoMatrix
    /\ Idle3D
    /\ pc = "encode"
    /\ err = ""

(* get_labels_block(lb, fb): fb is shifted in place before anything else;  *)
(* a second call on the same arrays therefore starts from the shifted fb.  *)
GetLabelsBlock ==
    /\ pc = "encode"
    /\ calls < MaxCalls
    /\ LET fbS == ShiftedFb(fb)
           lbS == ShiftedLb(lb, n_faults)
       IN /\ fb' = fbS
          /\ calls' = calls + 1
          /\ prev_labels' = labels
          /\ IF NegativeExponent(lbS, fbS)
             THEN /\ err' = "ValueError"
                  /\ pc' = "raised"
                  /\ labels' = NoArray
             ELSE /\ err' = err
                  /\ pc' = pc
                  /\ labels' = SummedLabels(lbS, fbS)
    /\ UNCHANGED <<n_faults, n_layers, lb, fb_given, lith_lot, fault_labels,
                   fault_labels_bin, lith_labels_bin, adj_matrix_labels,
                   edges, adj_matrix, shape, labels_block, topo_block>>

GetLithLot ==
    /\ pc = "encode"
    /\ calls >= 1
    /\ lith_lot' = get_lith_lot(labels, n_faults, n_layers)
    /\ pc' = "lith_lot"
    /\ UNCHANGED <<n_faults, n_layers, lb, fb, fb_given, labels, prev_labels, calls,
                   fault_labels, fault_labels_bin, lith_labels_bin,
                   adj_matrix_labels, edges, adj_matrix, shape, labels_block,
                   topo_block, err>>

GetFaultLabels ==
    /\ pc = "lith_lot"
    /\ fault_labels' = get_fault_labels(n_faults)
    /\ pc' = "fault_labels"
    /\ UNCHANGED <<n_faults, n_layers, lb, fb, fb_given, labels, prev_labels, calls,
                   lith_lot, fault_labels_bin, lith_labels_bin,
                   adj_matrix_labels, edges, adj_matrix, shape, labels_block,
                   topo_block, err>>

GetFaultLabelCombBin ==
    /\ pc = "fault_labels"
    /\ fault_labels_bin' = get_fault_label_comb_bin(fault_labels)
    /\ pc' = "fault_labels_bin"
    /\ UNCHANGED <<n_faults, n_layers, lb, fb, fb_given, labels, prev_labels, calls,
                   lith_lot, fault_labels, lith_labels_bin,
                   adj_matrix_labels, edges, adj_matrix, shape, labels_block,
                   topo_block, err>>

GetLithLabelsBin ==
    /\ pc = "fault_labels_bin"
    /\ lith_labels_bin' = get_lith_labels_bin(n_layers)
    /\ pc' = "lith_labels_bin"
    /\ UNCHANGED <<n_faults, n_layers, lb, fb, fb_given, labels, prev_labels, calls,
                   lith_lot, fault_labels, fault_labels_bin,
                   adj_matrix_labels, edges, adj_matrix, shape, labels_block,
                   topo_block, err>>

GetAdjMatrixLabels ==
    /\ pc = "lith_labels_bin"
    /\ adj_matrix_labels' = get_adj_matrix_labels(lith_labels_bin, fault_labels_bin)
    /\ pc' = "adj_matrix_labels"
    /\ UNCHANGED <<n_faults, n_layers, lb, fb, fb_given, labels, prev_labels, calls,
                   lith_lot, fault_labels, fault_labels_bin, lith_labels_bin,
                   edges, adj_matrix, shape, labels_block, topo_block, err>>

(* get_adj_matrix(edges, adj_matrix_labels, labels) on an edge set over    *)
(* the nodes of the label field                                            *)
GetAdjMatrix ==
    /\ pc = "adj_matrix_labels"
    /\ \E e \in EdgeSetsOver(np_unique(labels)) :
          /\ edges' = e
          /\ LET raised == AdjMatrixError(e, adj_matrix_labels, labels)
             IN IF raised # ""
                THEN /\ err' = raised
                     /\ pc' = "raised"
                     /\ adj_matrix' = NoMatrix
                ELSE /\ err' = err
                     /\ pc' = "done"
                     /\ adj_matrix' = get_adj_matrix(e, adj_matrix_labels, labels)
    /\ UNCHANGED <<n_faults, n_layers, lb, fb, fb_given, labels, prev_labels, calls,
                   lith_lot, fault_labels, fault_labels_bin, lith_labels_bin,
                   adj_matrix_labels, shape, labels_block, topo_block>>

Next ==
    \/ GetLabelsBlock
    \/ GetLithLot
    \/ GetFaultLabels
    \/ GetFaultLabelCombBin
    \/ GetLithLabelsBin
    \/ GetAdjMatrixLabels
    \/ GetAdjMatrix

Spec == Init /\ [][Next]_vars

(* the label encoder alone, called up to MaxCalls times on the same arrays *)
NextEncode == GetLabelsBlock

SpecEncode == Init /\ [][NextEncode]_vars

(* ============================ checked properties ====================== *)
FirstCallDone == calls = 1 /\ labels # NoArray

SameSides(u, v) == \A i \in DOMAIN fb_given : fb_given[i][u] = fb_given[i][v]

(* C3: after get_labels_block on valid input two voxels carry the same     *)
(* label exactly when they have the same lithology value and the same side *)
(* on every fault; every label is positive and the fault contribution      *)
(* stays below the lowest lithology bit n_faults + 2.                      *)
C3_LabelInjectivity ==
    FirstCallDone =>
        /\ \A u, v \in Vox :
              (labels[u] = labels[v]) <=> (lb[u] = lb[v] /\ SameSides(u, v))
        /\ \A v \in Vox : labels[v] > 0 /\ FaultPart(fb, v) < Pow2(n_faults + 2)

(* the two faults of voxel 0 land on the same bit, voxel 1 differs only in *)
(* its fault sides, and the labels still differ                            *)
C3_Witness ==
    /\ FirstCallDone
    /\ n_faults = 2
    /\ fb_given[0][0] = 2 /\ fb_given[1][0] = 1
    /\ lb[0] = lb[1]
    /\ ~SameSides(0, 1)
    /\ labels[0] # labels[1]

(* C4: after get_labels_block on valid input the label of every voxel has  *)
(* exactly n_faults + 1 bits set.                                          *)
C4_BitCount ==
    FirstCallDone => \A v \in Vox : PopCount(labels[v]) = n_faults + 1

(* C5: over the pipeline every label of the label field is found in        *)
(* adj_matrix_labels, get_adj_matrix never raises label-not-found and the  *)
(* diagonal entry of every present label is true.                          *)
C5_SelfAdjacencyComplete ==
    calls = 1 =>
        /\ pc # "raised"
        /\ pc = "adj_matrix_labels" =>
              \A l \in np_unique(labels) : EdgeIndex(adj_matrix_labels, l) >= 0
        /\ pc = "done" =>
              \A l \in np_unique(labels) :
                 /\ EdgeIndex(adj_matrix_labels, l) >= 0
                 /\ adj_matrix[<<EdgeIndex(adj_matrix_labels, l),
                                 EdgeIndex(adj_matrix_labels, l)>>]

(* one id of every fault block: the binary strings C8 expects *)
OneIdPerBlock(nf) ==
    {Zfill(BinaryRepr(SumOver(1 .. nf,
                [r \in 1 .. nf |-> Pow2(2 * (r - 1) + pick[r])])), nf * 2) :
        pick \in [1 .. nf -> {0, 1}]}

(* C8: get_fault_labels gives the pairs [2r, 2r+1] and                      *)
(* get_fault_label_comb_bin gives exactly the 2^n_faults strings that take *)
(* one id from each fault block; for two faults 0101, 1001, 0110, 1010.    *)
C8_FaultCombEnumeration ==
    pc = "fault_labels_bin" =>
        /\ fault_labels = [r \in 1 .. n_faults |-> <<2 * r - 2, 2 * r - 1>>]
        /\ Range(fault_labels_bin) = OneIdPerBlock(n_faults)
        /\ Len(fault_labels_bin) = Pow2(n_faults)
        /\ n_faults = 2 =>
              fault_labels_bin = << <<0, 1, 0, 1>>, <<1, 0, 0, 1>>,
                                    <<0, 1, 1, 0>>, <<1, 0, 1, 0>> >>

(* C9: get_lith_lot has one entry for every label of the field and the     *)
(* value stored for a label is the lithology id of its voxels.             *)
C9_LithRoundTrip ==
    (calls = 1 /\ pc = "lith_lot") =>
        /\ DOMAIN lith_lot = np_unique(labels)
        /\ \A v \in Vox : lith_lot[labels[v]] = lb[v]

(* C10: a second call of get_labels_block on the same arrays returns the   *)
(* label field of the first call.                                          *)
C10_Idempotence ==
    calls = 2 => (err = "" /\ labels = prev_labels)

(* ====================== edges of an arbitrary label field ============= *)
FreeShape == <<2, 2, 2>>
MaxFreeLabel == 3
ColumnLen == 3
ColumnShape == <<2, ColumnLen, 2>>
MaxLabel == 4

(* label fields that repeat one (x, y) column pattern along z *)
ColumnFields ==
    {[p \in Idx(ColumnShape) |-> col[<<p[1], p[2]>>]] :
        col \in [(0 .. 1) \X (0 .. (ColumnLen - 1)) -> 1 .. MaxLabel]}

IdlePipeline ==
    /\ n_faults = 0
    /\ n_layers = 0
    /\ lb = NoArray
    /\ fb = NoArray
    /\ fb_given = NoArray
    /\ prev_labels = NoArray
    /\ calls = 0
    /\ lith_lot = NoArray
    /\ fault_labels = <<>>
    /\ fault_labels_bin = <<>>
    /\ lith_labels_bin = <<>>

InitEdges ==
    /\ \/ /\ shape = FreeShape
          /\ labels_block \in [Idx(FreeShape) -> 1 .. MaxFreeLabel]
       \/ /\ shape = ColumnShape
          /\ labels_block \in ColumnFields
    /\ topo_block = NoArray
    /\ edges = {}
    /\ IdlePipeline
    /\ labels = NoArray
    /\ adj_matrix_labels = <<>>
    /\ adj_matrix = NoMatrix
    /\ pc = "topo"
    /\ err = ""

LabelsArray == [shape |-> shape, val |-> labels_block]

GetTopoBlock ==
    /\ pc = "topo"
    /\ IF TopoShapesAgree(LabelsArray, n_shift)
       THEN /\ topo_block' = get_topo_block(LabelsArray, n_shift)
            /\ pc' = "edges"
            /\ err' = err
       ELSE /\ topo_block' = NoArray
            /\ pc' = "raised"
            /\ err' = "ValueError"
    /\ UNCHANGED <<n_faults, n_layers, lb, fb, fb_given, labels, prev_labels,
                   calls, lith_lot, fault_labels, fault_labels_bin,
                   lith_labels_bin, adj_matrix_labels, edges, adj_matrix,
                   shape, labels_block>>

GetEdges ==
    /\ pc = "edges"
    /\ IF MaskMismatch(topo_block, LabelsArray, n_shift)
       THEN /\ edges' = {}
            /\ pc' = "raised"
            /\ err' = "IndexError"
       ELSE /\ edges' = get_edges(topo_block, LabelsArray, n_shift)
            /\ pc' = "edges_done"
            /\ err' = err
    /\ UNCHANGED <<n_faults, n_layers, lb, fb, fb_given, labels, prev_labels,
                   calls, lith_lot, fault_labels, fault_labels_bin,
                   lith_labels_bin, adj_matrix_labels, adj_matrix,
                   shape, labels_block, topo_block>>

NextEdges ==
    \/ GetTopoBlock
    \/ GetEdges

SpecEdges == InitEdges /\ [][NextEdges]_vars

(* two voxels that are neighbours along the x, y or z axis *)
Neighbours(p, q) ==
    \E a \in 1 .. 3 :
        /\ q[a] = p[a] + 1
        /\ \A o \in 1 .. 3 : o # a => q[o] = p[o]

Touch(a, b) ==
    \E p, q \in Idx(shape) :
        /\ Neighbours(p, q)
        /\ \/ (labels_block[p] = a /\ labels_block[q] = b)
           \/ (labels_block[p] = b /\ labels_block[q] = a)

(* C1: whenever two neighbouring voxels carry distinct labels a and b, the *)
(* set returned by get_edges holds (a, b) or (b, a).                       *)
C1_EdgeCompleteness ==
    pc = "edges_done" =>
        \A a, b \in Range(labels_block) :
            (a # b /\ Touch(a, b)) => (<<a, b>> \in edges \/ <<b, a>> \in edges)

(* C2: every pair (a, b) with a # b returned by get_edges is a pair of     *)
(* labels carried by two neighbouring voxels.                              *)
C2_EdgeSoundness ==
    pc = "edges_done" =>
        \A e \in edges : e[1] # e[2] => Touch(e[1], e[2])

(* C7: get_edges never returns a pair (a, a); a uniform label field on a   *)
(* grid of at least 2x2x2 gives the empty set.                             *)
C7_NoSelfEdges ==
    pc = "edges_done" =>
        /\ \A e \in edges : e[1] # e[2]
        /\ (Cardinality(Range(labels_block)) = 1 /\ \A a \in 1 .. 3 : shape[a] >= 2)
              => edges = {}


(* ================== get_adj_matrix on arbitrary arguments ============= *)
MaxNode == 2
MaxListLen == 2
NarrowWidth == 2

Nodes == 1 .. MaxNode

LabelLists ==
    UNION {UNION {[1 .. len -> {Zfill(BinaryRepr(k), w) : k \in Nodes}] :
                     len \in 0 .. MaxListLen} : w \in {NarrowWidth, LabelWidth}}


InitAdj ==
    /\ adj_matrix_labels \in LabelLists
    /\ labels \in [Vox -> Nodes]
    /\ edges = {}
    /\ adj_matrix = NoMatrix
    /\ IdlePipeline
    /\ Idle3D
    /\ pc = "adj_call"
    /\ err = ""

CallGetAdjMatrix ==
    /\ pc = "adj_call"
    /\ \E e \in EdgeSetsOver(Nodes) :
          /\ edges' = e
          /\ LET raised == AdjMatrixError(e, adj_matrix_labels, labels)
             IN IF raised # ""
                THEN /\ err' = raised
                     /\ pc' = "raised"
                     /\ adj_matrix' = NoMatrix
                ELSE /\ err' = err
                     /\ pc' = "done"
                     /\ adj_matrix' = get_adj_matrix(e, adj_matrix_labels, labels)
    /\ UNCHANGED <<n_faults, n_layers, lb, fb, fb_given, labels, prev_labels,
                   calls, lith_lot, fault_labels, fault_labels_bin,
                   lith_labels_bin, adj_matrix_labels, shape, labels_block,
                   topo_block>>

NextAdj == CallGetAdjMatrix

SpecAdj == InitAdj /\ [][NextAdj]_vars

NodeAt(i) == BinValue(adj_matrix_labels[i + 1])

(* C6: whenever get_adj_matrix returns, the result is an n x n boolean     *)
(* matrix, n = len(adj_matrix_labels), that is symmetric, and an           *)
(* off-diagonal entry is true only if its two labels form an edge.         *)
C6_AdjMatrixSymmetric ==
    pc = "done" =>
        LET ix == 0 .. (Len(adj_matrix_labels) - 1)
        IN /\ DOMAIN adj_matrix = ix \X ix
           /\ \A i, j \in ix :
                 /\ adj_matrix[<<i, j>>] \in BOOLEAN
                 /\ adj_matrix[<<i, j>>] = adj_matrix[<<j, i>>]
                 /\ (i # j /\ adj_matrix[<<i, j>>]) =>
                       \/ <<NodeAt(i), NodeAt(j)>> \in edges
                       \/ <<NodeAt(j), NodeAt(i)>> \in edges

(* an edge given in one direction only is entered in both *)
C6_Witness ==
    /\ pc = "done"
    /\ \E e \in edges :
          /\ e[1] # e[2]
          /\ <<e[2], e[1]>> \notin edges
          /\ adj_matrix[<<EdgeIndex(adj_matrix_labels, e[2]),
                          EdgeIndex(adj_matrix_labels, e[1])>>]

====
